---- MODULE Spec2Model ----
(***************************************************************************)
(* Credential-verification and OAuth-state core of Notion_MCP:             *)
(*   notion_oauth.py  InMemoryStateStore, InMemoryTokenStore,              *)
(*                    handle_callback and its collaborators                *)
(*   auth.py          InMemoryPrincipalStore, SupabaseJwksClient,          *)
(*                    verify_jwt, JWTAuthMiddleware.dispatch               *)
(*   server.py        notion_oauth_start, notion_oauth_callback            *)
(*                                                                         *)
(* Scheduling: server.py registers `async def` handlers whose bodies call  *)
(* the synchronous functions of notion_oauth.py / auth.py without an       *)
(* await, so on the event loop a handler body runs from one await to the   *)
(* next without interleaving.  A request is in flight from its arrival     *)
(* until its handler body has run; several requests can be in flight.      *)
(***************************************************************************)
EXTENDS Integers, Sequences, FiniteSets, TLC

(* Python Optional[T]: None is the empty tuple, a value x is <<x>>. *)
None == <<>>
Some(x) == <<x>>
Val(o) == o[1]

(* ---------------- bounds of the model ---------------- *)
MaxTicks == 1
MaxStates == 2
MaxCallbacks == 2
MaxRequests == 2
MaxCalls == 3
MaxLookups == 3

(* ---------------- program constants ---------------- *)
DEFAULT_STATE_TTL_SECONDS == 600
DEFAULT_JWKS_TTL_SECONDS == 3600

(* Amounts by which the wall clock advances between two steps: one second
   less than the state TTL, and the state TTL. *)
StateTimeSteps == {DEFAULT_STATE_TTL_SECONDS - 1, DEFAULT_STATE_TTL_SECONDS}
(* ... and the same around the key-set TTL. *)
JwksTimeSteps == {DEFAULT_JWKS_TTL_SECONDS - 1, DEFAULT_JWKS_TTL_SECONDS}

(* Values secrets.token_urlsafe(32) can return (two of the 2^256). *)
StateValues == {"s1", "s2"}
(* A state value that no create ever returned (forged by the caller). *)
ForgedState == "forged"

VARIABLES
    now,          \* wall clock read by _utcnow() / time.time(), in seconds
    ticks,        \* number of clock advances so far (bounded)
    states,       \* InMemoryStateStore._states : state value -> OAuthState
    last_token,   \* InMemoryTokenStore._last_token : Optional[TokenRecord]
    arrived,      \* number of callback requests received so far
    cb,           \* callback requests in flight : request id -> query params
    last,         \* outcome of the handler body that ran most recently
    hist,         \* per state value: consume calls made and how many succeeded
    exchanges,    \* history of the token-endpoint calls that returned a body
    jwks,         \* SupabaseJwksClient._jwks : Optional[dict]
    fetched_at,   \* SupabaseJwksClient._fetched_at : Optional[float]
    records,      \* InMemoryPrincipalStore._records : key -> PrincipalRecord
    next_oid,     \* number of PrincipalRecord objects constructed so far
    received,     \* number of requests the middleware has received so far
    rq,           \* requests in flight through JWTAuthMiddleware
    glast,        \* outcome of the dispatch step that ran most recently
    fetched,      \* the most recent key-set GET that returned a body, and when
    asked,        \* number of direct get_key calls started so far
    lk,           \* direct get_key calls waiting to run : call id -> kid
    klast,        \* outcome of the direct get_key call that ran most recently
    calls         \* history of the direct get_or_create calls

oauthVars == <<states, last_token, arrived, cb, last, hist, exchanges>>
gateVars == <<jwks, fetched_at, received, rq, glast, fetched>>
storeVars == <<records, next_oid>>
keyVars == <<asked, lk, klast>>
vars == <<now, ticks, states, last_token, arrived, cb, last, hist, exchanges,
          jwks, fetched_at, records, next_oid, received, rq, glast, fetched,
          asked, lk, klast, calls>>

(* ---------------- notion_oauth.py: InMemoryStateStore ---------------- *)

(* A generator that can return a value it has returned before. *)
token_urlsafe_any(store) == StateValues

(* secrets.token_urlsafe(32): 256 random bits; modelled as a value that is
   not yet a key of the store. *)
token_urlsafe(store) == StateValues \ DOMAIN store

OAuthState(state, t, ttl_seconds, principal_id) ==
    [state |-> state,
     created_at |-> t,
     expires_at |-> t + ttl_seconds,
     consumed_at |-> None,
     principal_id |-> principal_id]

create(store, state, t, ttl_seconds, principal_id) ==
    LET record == OAuthState(state, t, ttl_seconds, principal_id)
    IN  [ret |-> record,
         store |-> [s \in DOMAIN store \cup {state} |->
                       IF s = state THEN record ELSE store[s]]]

IsConsumed_never(record) == FALSE
IsConsumed(record) == record.consumed_at # None

IsExpired_strict(record, t) == record.expires_at < t
IsExpired(record, t) == record.expires_at <= t

Mark_noop(record, t) == record
Mark(record, t) == [record EXCEPT !.consumed_at = Some(t)]

(* A variant of consume that writes consumed_at before it tests expiry. *)
consume_mark_first(store, state, t) ==
    IF state \notin DOMAIN store
    THEN [kind |-> "NotFound", ret |-> None, store |-> store]
    ELSE LET record == store[state] IN
         IF IsConsumed(record)
         THEN [kind |-> "AlreadyConsumed", ret |-> None, store |-> store]
         ELSE LET marked == Mark(record, t) IN
              IF IsExpired(record, t)
              THEN [kind |-> "Expired", ret |-> None,
                    store |-> [store EXCEPT ![state] = marked]]
              ELSE [kind |-> "Ok", ret |-> Some(marked),
                    store |-> [store EXCEPT ![state] = marked]]
(* consume returns None on each of its three early returns; `kind` names
   the return statement taken. *)
consume(store, state, t) ==
    IF state \notin DOMAIN store
    THEN [kind |-> "NotFound", ret |-> None, store |-> store]
    ELSE LET record == store[state] IN
         IF IsConsumed(record)
         THEN [kind |-> "AlreadyConsumed", ret |-> None, store |-> store]
         ELSE IF IsExpired(record, t)
         THEN [kind |-> "Expired", ret |-> None, store |-> store]
         ELSE LET marked == Mark(record, t) IN
              [kind |-> "Ok", ret |-> Some(marked),
               store |-> [store EXCEPT ![state] = marked]]

(* ---------------- notion_oauth.py: token exchange ---------------- *)

(* Bodies the provider's token endpoint can answer with on a 2xx. *)
TokenResponses ==
    { [access_token |-> Some("tokA"), workspace_id |-> Some("w1"),
       workspace_name |-> Some("W1"), scope |-> None],
      [access_token |-> None, workspace_id |-> None,
       workspace_name |-> None, scope |-> None] }

(* Outcomes of an outbound POST: a parsed 2xx body, or the exception raised:
   httpx.HTTPStatusError by raise_for_status (a transport failure or a
   timeout raises another httpx exception, handled the same way by every
   caller), json.JSONDecodeError by response.json(). *)
HttpFailures == {"HTTPStatusError", "JSONDecodeError"}
NotCalled == [exc |-> "notcalled", body |-> None]
ExchangeOutcomes ==
    [exc : {"none"}, body : {Some(b) : b \in TokenResponses}] \cup
    [exc : HttpFailures, body : {None}]
ProbeOutcomes == {"none"} \cup HttpFailures

(* dict.get(key, default) on the parsed body *)
GetOr(o, default) == IF o = None THEN default ELSE Val(o)

TokenRecord(token_response, t) ==
    [access_token |-> GetOr(token_response.access_token, ""),
     workspace_id |-> token_response.workspace_id,
     workspace_name |-> token_response.workspace_name,
     created_at |-> t,
     scope |-> token_response.scope,
     raw |-> token_response]

(* InMemoryTokenStore.save *)
save_keep(store, record) == store
save_first(store, record) == IF store = None THEN Some(record) ELSE store
save(store, record) == Some(record)

(* store_token: build the record and save it *)
store_token(token_response, token_store, t) ==
    LET record == TokenRecord(token_response, t)
    IN  [ret |-> record, store |-> save(token_store, record)]

(* json.JSONDecodeError is a subclass of ValueError *)
IsValueError(exc) == exc \in {"ValueError", "JSONDecodeError"}

(* Variants of handle_callback: one that empties the token store when the
   exchange fails, one that repeats a failed exchange. *)
handle_callback_clear(code, state, state_store, token_store, t, ex, pr) ==
    LET c == consume(state_store, state, t) IN
    IF c.ret = None
    THEN [exc |-> "ValueError", step |-> "consume", kind |-> c.kind,
          token |-> None, states |-> c.store, tokens |-> token_store,
          exchanged |-> FALSE, probed |-> FALSE,
          trace |-> <<"consume">>]
    ELSE IF ex.exc # "none"
    THEN [exc |-> ex.exc, step |-> "exchange", kind |-> c.kind,
          token |-> None, states |-> c.store, tokens |-> None,
          exchanged |-> TRUE, probed |-> FALSE,
          trace |-> <<"consume", "exchange">>]
    ELSE LET st == store_token(Val(ex.body), token_store, t) IN
         IF pr # "none"
         THEN [exc |-> pr, step |-> "probe", kind |-> c.kind,
               token |-> Some(st.ret), states |-> c.store, tokens |-> st.store,
               exchanged |-> TRUE, probed |-> TRUE,
               trace |-> <<"consume", "exchange", "save", "probe">>]
         ELSE [exc |-> "none", step |-> "done", kind |-> c.kind,
               token |-> Some(st.ret), states |-> c.store, tokens |-> st.store,
               exchanged |-> TRUE, probed |-> TRUE,
               trace |-> <<"consume", "exchange", "save", "probe">>]

handle_callback_retry(code, state, state_store, token_store, t, ex, pr) ==
    LET c == consume(state_store, state, t) IN
    IF c.ret = None
    THEN [exc |-> "ValueError", step |-> "consume", kind |-> c.kind,
          token |-> None, states |-> c.store, tokens |-> token_store,
          exchanged |-> FALSE, probed |-> FALSE,
          trace |-> <<"consume">>]
    ELSE IF ex.exc # "none"
    THEN [exc |-> ex.exc, step |-> "exchange", kind |-> c.kind,
          token |-> None, states |-> c.store, tokens |-> token_store,
          exchanged |-> TRUE, probed |-> FALSE,
          trace |-> <<"consume", "exchange", "exchange">>]
    ELSE LET st == store_token(Val(ex.body), token_store, t) IN
         IF pr # "none"
         THEN [exc |-> pr, step |-> "probe", kind |-> c.kind,
               token |-> Some(st.ret), states |-> c.store, tokens |-> st.store,
               exchanged |-> TRUE, probed |-> TRUE,
               trace |-> <<"consume", "exchange", "save", "probe">>]
         ELSE [exc |-> "none", step |-> "done", kind |-> c.kind,
               token |-> Some(st.ret), states |-> c.store, tokens |-> st.store,
               exchanged |-> TRUE, probed |-> TRUE,
               trace |-> <<"consume", "exchange", "save", "probe">>]

(* handle_callback(code, state): consume, exchange, store, probe.  The two
   outbound calls are answered by the environment with ex and pr; trace
   lists the calls the body made, in the order it made them. *)
handle_callback(code, state, state_store, token_store, t, ex, pr) ==
    LET c == consume(state_store, state, t) IN
    IF c.ret = None
    THEN [exc |-> "ValueError", step |-> "consume", kind |-> c.kind,
          token |-> None, states |-> c.store, tokens |-> token_store,
          exchanged |-> FALSE, probed |-> FALSE,
          trace |-> <<"consume">>]
    ELSE IF ex.exc # "none"
    THEN [exc |-> ex.exc, step |-> "exchange", kind |-> c.kind,
          token |-> None, states |-> c.store, tokens |-> token_store,
          exchanged |-> TRUE, probed |-> FALSE,
          trace |-> <<"consume", "exchange">>]
    ELSE LET st == store_token(Val(ex.body), token_store, t) IN
         IF pr # "none"
         THEN [exc |-> pr, step |-> "probe", kind |-> c.kind,
               token |-> Some(st.ret), states |-> c.store, tokens |-> st.store,
               exchanged |-> TRUE, probed |-> TRUE,
               trace |-> <<"consume", "exchange", "save", "probe">>]
         ELSE [exc |-> "none", step |-> "done", kind |-> c.kind,
               token |-> Some(st.ret), states |-> c.store, tokens |-> st.store,
               exchanged |-> TRUE, probed |-> TRUE,
               trace |-> <<"consume", "exchange", "save", "probe">>]

(* The environment answers only the outbound calls that are made: the
   exchange when the state was consumed, the probe when the exchange
   returned a body. *)
ExchangeAnswers(state_store, state, t) ==
    IF consume(state_store, state, t).ret = None
    THEN {NotCalled} ELSE ExchangeOutcomes
ProbeAnswers(ex) ==
    IF ex.exc = "none" THEN ProbeOutcomes ELSE {"notcalled"}

(* ---------------- server.py: the OAuth endpoints ---------------- *)

(* `not x` for a query parameter: missing or empty *)
Falsy(param) == param = None \/ param = Some("")

(* Query strings a callback request can carry. *)
CallbackParams ==
    { [code |-> None, state |-> Some("s1")],
      [code |-> Some("c1"), state |-> None],
      [code |-> Some("c1"), state |-> Some("")] } \cup
    [code : {Some("c1")}, state : {Some(s) : s \in StateValues \cup {ForgedState}}]

(* dataclasses.asdict: a new dict with the fields of the dataclass *)
asdict(token) == [f \in DOMAIN token |-> token[f]]

(* Two decimal digits of n < 100, as a string. *)
Digit(d) == <<"0", "1", "2", "3", "4", "5", "6", "7", "8", "9">>[d + 1]
TwoDigits(n) == <<Digit(n \div 10), Digit(n % 10)>>

(* datetime.isoformat() of the UTC time t seconds after the epoch, within
   the first day: "1970-01-01Thh:mm:ss+00:00". *)
isoformat(t) ==
    <<"1", "9", "7", "0", "-", "0", "1", "-", "0", "1", "T">> \o
    TwoDigits(t \div 3600) \o <<":">> \o
    TwoDigits((t % 3600) \div 60) \o <<":">> \o
    TwoDigits(t % 60) \o <<"+", "0", "0", ":", "0", "0">>

(* dict.pop(key, None) *)
pop_nothing(data, key) == data
pop(data, key) == [f \in DOMAIN data \ {key} |-> data[f]]

(* _serialize_token: the token object of the callback response *)
serialize_token(token) ==
    LET data == asdict(token)
        formatted == [data EXCEPT !.created_at = isoformat(@)]
    IN  pop(pop(formatted, "access_token"), "raw")

(* notion_oauth_callback: the response status; an exception other than
   ValueError leaves the handler and the framework answers 500. *)
CallbackStatus(missing, exc) ==
    IF missing THEN 400
    ELSE IF exc = "none" THEN 200
    ELSE IF IsValueError(exc) THEN 400
    ELSE 500

(* ---------------- auth.py: InMemoryPrincipalStore ---------------- *)

(* Strings are tuples of characters. *)
Bar == "|"

(* key = f"{iss}|{sub}" *)
principal_key(iss, sub) == iss \o <<Bar>> \o sub

(* PrincipalRecord(iss=iss, sub=sub, created_at=_utcnow()); oid is the
   identity of the constructed object. *)
PrincipalRecord(iss, sub, t, oid) ==
    [iss |-> iss, sub |-> sub, created_at |-> t, oid |-> oid]

IsMissing_always(store, key) == TRUE
IsMissing(store, key) == key \notin DOMAIN store

Put_nothing(store, key, record) == store
Put(store, key, record) ==
    [k \in DOMAIN store \cup {key} |-> IF k = key THEN record ELSE store[k]]

get_or_create(store, oid, iss, sub, t) ==
    LET key == principal_key(iss, sub) IN
    IF IsMissing(store, key)
    THEN LET record == PrincipalRecord(iss, sub, t, oid + 1) IN
         [ret |-> record, store |-> Put(store, key, record), oid |-> oid + 1]
    ELSE [ret |-> store[key], store |-> store, oid |-> oid]

(* ---------------- auth.py: SupabaseJwksClient ---------------- *)

(* Signing keys the provider publishes: key identifier and key material. *)
Key1 == [kid |-> "k1", material |-> "m1"]
Key2 == [kid |-> "k2", material |-> "m2"]

(* Bodies the key-set endpoint can answer with on a 2xx: the empty JSON
   object {} (no "keys" member), and {"keys": [...]}. *)
EmptyJson == [keys |-> None]
KeySetBodies ==
    {EmptyJson, [keys |-> Some({Key1})], [keys |-> Some({Key1, Key2})]}

FetchNotCalled == [exc |-> "notcalled", body |-> None]
FetchOutcomes ==
    [exc : {"none"}, body : {Some(b) : b \in KeySetBodies}] \cup
    [exc : {"HTTPStatusError"}, body : {None}]

(* Truth value of `self._jwks`: None and the empty dict are falsy. *)
JwksTruthy(j) == j # None /\ Val(j).keys # None

(* Truth value of `self._fetched_at`: None and 0.0 are falsy. *)
TimeTruthy(f) == f # None /\ Val(f) # 0

(* The condition of line 62 under which the cached set is served. *)
ServesCache(j, f, t, ttl_seconds) ==
    JwksTruthy(j) /\ TimeTruthy(f) /\ (t - Val(f)) < ttl_seconds

(* Variants of get_jwks: one that records the fetch time before the GET is
   answered, one that replaces the key set without recording the time. *)
get_jwks_stamp_first(j, f, t, ttl_seconds, ans) ==
    IF ServesCache(j, f, t, ttl_seconds)
    THEN [exc |-> "none", ret |-> j, jwks |-> j, fetched_at |-> f, fetches |-> 0]
    ELSE IF ans.exc # "none"
    THEN [exc |-> ans.exc, ret |-> None, jwks |-> j, fetched_at |-> Some(t),
          fetches |-> 1]
    ELSE [exc |-> "none", ret |-> ans.body, jwks |-> ans.body,
          fetched_at |-> Some(t), fetches |-> 1]

get_jwks_keeps_time(j, f, t, ttl_seconds, ans) ==
    IF ServesCache(j, f, t, ttl_seconds)
    THEN [exc |-> "none", ret |-> j, jwks |-> j, fetched_at |-> f, fetches |-> 0]
    ELSE IF ans.exc # "none"
    THEN [exc |-> ans.exc, ret |-> None, jwks |-> j, fetched_at |-> f,
          fetches |-> 1]
    ELSE [exc |-> "none", ret |-> ans.body, jwks |-> ans.body,
          fetched_at |-> f, fetches |-> 1]
(* get_jwks: ans is the environment's answer to the GET, if one is made. *)
get_jwks(j, f, t, ttl_seconds, ans) ==
    IF ServesCache(j, f, t, ttl_seconds)
    THEN [exc |-> "none", ret |-> j, jwks |-> j, fetched_at |-> f, fetches |-> 0]
    ELSE IF ans.exc # "none"
    THEN [exc |-> ans.exc, ret |-> None, jwks |-> j, fetched_at |-> f,
          fetches |-> 1]
    ELSE [exc |-> "none", ret |-> ans.body, jwks |-> ans.body,
          fetched_at |-> Some(t), fetches |-> 1]

(* get_key: the first key of the set whose kid matches. *)
get_key(j, f, t, ttl_seconds, ans, kid) ==
    LET g == get_jwks(j, f, t, ttl_seconds, ans)
        found == IF JwksTruthy(g.ret)
                 THEN {k \in GetOr(Val(g.ret).keys, {}) : k.kid = kid} ELSE {}
    IN  IF g.exc # "none"
        THEN [exc |-> g.exc, msg |-> "fetch failed", key |-> None, g |-> g]
        ELSE IF ~JwksTruthy(g.ret)
        THEN [exc |-> "ValueError", msg |-> "No JWKS available.",
              key |-> None, g |-> g]
        ELSE IF found = {}
        THEN [exc |-> "ValueError", msg |-> "No matching JWKS key found.",
              key |-> None, g |-> g]
        ELSE [exc |-> "none", msg |-> "", key |-> Some(CHOOSE k \in found : TRUE),
              g |-> g]

(* ---------------- auth.py: verify_jwt ---------------- *)

SUPABASE_ISSUER == <<"i", "s", "s">>
SUPABASE_JWT_AUDIENCE == "authenticated"

(* A token: whether it parses, the kid and alg of its header, the key
   material that signed it, and its claims. *)
GoodToken == [wellformed |-> TRUE, kid |-> Some("k1"), alg |-> "RS256",
              signer |-> "m1", aud |-> SUPABASE_JWT_AUDIENCE,
              iss |-> Some(SUPABASE_ISSUER), sub |-> Some(<<"u">>),
              expired |-> FALSE]
Tokens ==
    { GoodToken,
      [GoodToken EXCEPT !.kid = Some("k2"), !.signer = "m2",
                        !.sub = Some(<<"v">>)],
      [GoodToken EXCEPT !.sub = None],
      [GoodToken EXCEPT !.sub = Some(<<>>)],
      [GoodToken EXCEPT !.kid = None],
      [GoodToken EXCEPT !.alg = "HS256"],
      [GoodToken EXCEPT !.signer = "mX"],
      [GoodToken EXCEPT !.iss = Some(<<"e">>)],
      [GoodToken EXCEPT !.expired = TRUE],
      [GoodToken EXCEPT !.wellformed = FALSE] }

(* jwt.decode(token, key, algorithms=["RS256"], audience, issuer): the
   exception raised, or "none". *)
decode(token, key, audience, issuer) ==
    IF token.alg # "RS256" THEN "InvalidAlgorithmError"
    ELSE IF token.signer # key.material THEN "InvalidSignatureError"
    ELSE IF token.expired THEN "ExpiredSignatureError"
    ELSE IF token.aud # audience THEN "InvalidAudienceError"
    ELSE IF token.iss # Some(issuer) THEN "InvalidIssuerError"
    ELSE "none"

(* Whether verify_jwt reaches jwks_client.get_key. *)
LooksUp(token) == token.wellformed /\ token.kid # None

verify_jwt(token, j, f, t, ttl_seconds, ans) ==
    LET idle == [jwks |-> j, fetched_at |-> f, fetches |-> 0] IN
    IF ~token.wellformed
    THEN [exc |-> "DecodeError", payload |-> None, lookups |-> 0, g |-> idle]
    ELSE IF token.kid = None
    THEN [exc |-> "ValueError", payload |-> None, lookups |-> 0, g |-> idle]
    ELSE LET k == get_key(j, f, t, ttl_seconds, ans, Val(token.kid)) IN
         IF k.exc # "none"
         THEN [exc |-> k.exc, payload |-> None, lookups |-> 1, g |-> k.g]
         ELSE LET d == decode(token, Val(k.key), SUPABASE_JWT_AUDIENCE,
                              SUPABASE_ISSUER) IN
              IF d # "none"
              THEN [exc |-> d, payload |-> None, lookups |-> 1, g |-> k.g]
              ELSE [exc |-> "none",
                    payload |-> Some([iss |-> token.iss, sub |-> token.sub]),
                    lookups |-> 1, g |-> k.g]

(* The environment answers the key-set GET only when it is made. *)
FetchAnswers(token, j, f, t, ttl_seconds) ==
    IF LooksUp(token) /\ ~ServesCache(j, f, t, ttl_seconds)
    THEN FetchOutcomes ELSE {FetchNotCalled}

(* ---------------- auth.py: JWTAuthMiddleware ---------------- *)

(* server.py: public_paths=["/health"] *)
HealthPath == <<"/", "h", "e", "a", "l", "t", "h">>
PublicPaths == {HealthPath}

startswith(str, prefix) ==
    Len(prefix) <= Len(str) /\ SubSeq(str, 1, Len(prefix)) = prefix

is_public_path_never(path, public_paths) == FALSE
is_public_path(path, public_paths) ==
    \E public_path \in public_paths : startswith(path, public_path)
(* `auth_header.startswith("Bearer ")`; the token is what follows the
   first space. *)
NoHeader == [scheme |-> "", token |-> None]
BasicHeader == [scheme |-> "Basic ", token |-> None]
Bearer(token) == [scheme |-> "Bearer ", token |-> Some(token)]
HasBearer(auth_header) == auth_header.scheme = "Bearer "

(* `not iss or not sub` with iss = payload.get("iss", "") and
   sub = payload.get("sub", "") *)
HasClaims_any(payload) == TRUE
HasClaims(payload) ==
    GetOr(payload.iss, <<>>) # <<>> /\ GetOr(payload.sub, <<>>) # <<>>

(* Requests the middleware can receive: a path and an Authorization
   header. *)
ProtectedPath == <<"/", "m", "c", "p">>
GateRequests ==
    [path : {HealthPath}, auth : {NoHeader, Bearer(GoodToken)}] \cup
    [path : {HealthPath \o <<"z">>, SubSeq(HealthPath, 1, 5)},
     auth : {NoHeader}] \cup
    [path : {ProtectedPath},
     auth : {NoHeader, BasicHeader} \cup {Bearer(t) : t \in Tokens}]

(* Status codes the downstream application answers with. *)
DownstreamStatuses == {200, 404}

(* Issuer and subject strings given to get_or_create directly. *)
Idents == {<<"a">>, <<"a", Bar>>, <<Bar, "a">>}

NoDispatch == [op |-> "none", public |-> FALSE, bearer |-> FALSE,
               status |-> 0, error |-> "", next |-> FALSE,
               lookups |-> 0, fetches |-> 0]

NoCall == [op |-> "none", kid |-> "", exc |-> "none", msg |-> "",
           key |-> None, fetches |-> 0, overlap |-> FALSE]

NoRun == [op |-> "none", code |-> None, state |-> None,
          status |-> 0, exc |-> "none", step |-> "none",
          kind |-> "none", ret |-> None, raced |-> FALSE,
          trace |-> <<>>, view |-> None]

Init ==
    /\ now = 1
    /\ ticks = 0
    /\ states = <<>>
    /\ last_token = None
    /\ arrived = 0
    /\ cb = <<>>
    /\ last = NoRun
    /\ hist = [s \in StateValues \cup {ForgedState} |-> [calls |-> 0, oks |-> 0]]
    /\ exchanges = <<>>
    /\ jwks = None
    /\ fetched_at = None
    /\ records = <<>>
    /\ next_oid = 0
    /\ received = 0
    /\ rq = <<>>
    /\ glast = NoDispatch
    /\ fetched = None
    /\ asked = 0
    /\ lk = <<>>
    /\ klast = NoCall
    /\ calls = <<>>

(* The wall clock advances. *)
Tick(steps) ==
    /\ ticks < MaxTicks
    /\ \E d \in steps : now' = now + d
    /\ ticks' = ticks + 1

(* GET /notion/oauth/start: start_oauth() -> state_store.create() *)
StartOAuth ==
    /\ Cardinality(DOMAIN states) < MaxStates
    /\ \E state \in token_urlsafe(states) :
          states' = create(states, state, now,
                           DEFAULT_STATE_TTL_SECONDS, None).store
    /\ UNCHANGED <<now, ticks, last_token, arrived, cb, last, hist, exchanges>>

(* A GET /notion/oauth/callback?code=&state= request arrives. *)
CallbackArrive ==
    /\ arrived < MaxCallbacks
    /\ arrived' = arrived + 1
    /\ \E q \in CallbackParams :
          cb' = [i \in DOMAIN cb \cup {arrived + 1} |->
                    IF i = arrived + 1
                    THEN [code |-> q.code, state |-> q.state, raced |-> FALSE]
                    ELSE cb[i]]
    /\ UNCHANGED <<now, ticks, states, last_token, last, hist, exchanges>>

(* The handler body of notion_oauth_callback runs for request i and the
   response is sent; view is the "token" member of a 200 response.  raced marks the requests still in flight that present
   the state value this run has just consumed. *)
CallbackRun(i) ==
    IF Falsy(cb[i].code) \/ Falsy(cb[i].state)
    THEN /\ cb' = [j \in DOMAIN cb \ {i} |-> cb[j]]
         /\ last' = [op |-> "callback", code |-> cb[i].code,
                     state |-> cb[i].state,
                     status |-> CallbackStatus(TRUE, "none"),
                     exc |-> "none", step |-> "params",
                     kind |-> "none", ret |-> None, raced |-> cb[i].raced,
                     trace |-> <<>>, view |-> None]
         /\ UNCHANGED <<now, ticks, arrived, states, last_token, hist,
                        exchanges>>
    ELSE \E ex \in ExchangeAnswers(states, Val(cb[i].state), now) :
         \E pr \in ProbeAnswers(ex) :
         LET state == Val(cb[i].state)
             h == handle_callback(Val(cb[i].code), state,
                                  states, last_token, now, ex, pr)
             c == consume(states, state, now)
         IN  /\ cb' = [j \in DOMAIN cb \ {i} |->
                         IF cb[j].state = cb[i].state /\ c.kind = "Ok"
                         THEN [cb[j] EXCEPT !.raced = TRUE] ELSE cb[j]]
             /\ last' = [op |-> "callback", code |-> cb[i].code,
                         state |-> cb[i].state,
                         status |-> CallbackStatus(FALSE, h.exc),
                         exc |-> h.exc, step |-> h.step,
                         kind |-> c.kind, ret |-> c.ret,
                         raced |-> cb[i].raced,
                         trace |-> h.trace,
                         view |-> IF h.exc = "none"
                                  THEN Some(serialize_token(Val(h.token)))
                                  ELSE None]
             /\ exchanges' = IF ex.exc = "none"
                             THEN Append(exchanges,
                                         [body |-> Val(ex.body), at |-> now])
                             ELSE exchanges
             /\ states' = h.states
             /\ last_token' = h.tokens
             /\ hist' = [hist EXCEPT
                           ![state].calls = @ + 1,
                           ![state].oks = IF c.kind = "Ok" THEN @ + 1 ELSE @]
             /\ UNCHANGED <<now, ticks, arrived>>

(* ---- requests through JWTAuthMiddleware (server.py, mcp_host_app) ---- *)

(* A request reaches the middleware. *)
RequestArrive ==
    /\ received < MaxRequests
    /\ received' = received + 1
    /\ \E q \in GateRequests :
          rq' = [i \in DOMAIN rq \cup {received + 1} |->
                    IF i = received + 1
                    THEN [path |-> q.path, auth |-> q.auth, pc |-> "arrived",
                          principal |-> None, payload |-> None,
                          raced |-> FALSE]
                    ELSE rq[i]]
    /\ UNCHANGED <<now, ticks, jwks, fetched_at, records, next_oid, glast,
                   fetched>>

(* What a step of the middleware did for request i. *)
Outcome(i, op, status, error, next, lookups, fetches) ==
    [op |-> op,
     public |-> is_public_path(rq[i].path, PublicPaths),
     bearer |-> HasBearer(rq[i].auth),
     status |-> status, error |-> error, next |-> next,
     lookups |-> lookups, fetches |-> fetches]

(* The 401 JSONResponse of dispatch for request i. *)
Reject(i, message, v) ==
    /\ rq' = [j \in DOMAIN rq \ {i} |-> rq[j]]
    /\ glast' = Outcome(i, "dispatch", 401, message, FALSE, v.lookups, v.g.fetches)
    /\ UNCHANGED <<records, next_oid>>

(* dispatch runs for request i up to `await call_next(request)` or to its
   401 response.  raced marks the requests still waiting that carry the
   credential for which this run has just created the principal. *)
Dispatch(i) ==
    /\ rq[i].pc = "arrived"
    /\ UNCHANGED <<now, ticks, received>>
    /\ LET idle == [exc |-> "none", payload |-> None, lookups |-> 0,
                    g |-> [jwks |-> jwks, fetched_at |-> fetched_at,
                           fetches |-> 0]]
       IN
       IF is_public_path(rq[i].path, PublicPaths)
       THEN /\ rq' = [rq EXCEPT ![i].pc = "downstream"]
            /\ glast' = Outcome(i, "dispatch", 0, "", TRUE, 0, 0)
            /\ UNCHANGED <<jwks, fetched_at, records, next_oid, fetched>>
       ELSE IF ~HasBearer(rq[i].auth)
       THEN /\ Reject(i, "Missing Bearer token.", idle)
            /\ UNCHANGED <<jwks, fetched_at, fetched>>
       ELSE LET token == Val(rq[i].auth.token) IN
            \E ans \in FetchAnswers(token, jwks, fetched_at, now,
                                     DEFAULT_JWKS_TTL_SECONDS) :
            LET v == verify_jwt(token, jwks, fetched_at, now,
                                DEFAULT_JWKS_TTL_SECONDS, ans)
            IN  /\ jwks' = v.g.jwks
                /\ fetched_at' = v.g.fetched_at
                /\ fetched' = IF ans.exc = "none"
                              THEN Some([body |-> Val(ans.body), at |-> now])
                              ELSE fetched
                /\ IF v.exc # "none"
                   THEN Reject(i, "Invalid token", v)
                   ELSE IF ~HasClaims(Val(v.payload))
                   THEN Reject(i, "Token missing iss/sub.", v)
                   ELSE LET p == get_or_create(records, next_oid,
                                               GetOr(Val(v.payload).iss, <<>>),
                                               GetOr(Val(v.payload).sub, <<>>),
                                               now)
                        IN  /\ records' = p.store
                            /\ next_oid' = p.oid
                            /\ rq' = [j \in DOMAIN rq |->
                                  IF j = i
                                  THEN [rq[i] EXCEPT
                                          !.pc = "downstream",
                                          !.principal = Some(p.ret),
                                          !.payload = v.payload]
                                  ELSE IF /\ rq[j].pc = "arrived"
                                          /\ rq[j].auth = rq[i].auth
                                          /\ p.oid # next_oid
                                  THEN [rq[j] EXCEPT !.raced = TRUE]
                                  ELSE rq[j]]
                            /\ glast' = Outcome(i, "dispatch", 0, "", TRUE,
                                                v.lookups, v.g.fetches)

(* The downstream application answers request i and dispatch returns its
   response. *)
Respond(i) ==
    /\ rq[i].pc = "downstream"
    /\ rq' = [j \in DOMAIN rq \ {i} |-> rq[j]]
    /\ \E d \in DownstreamStatuses :
          glast' = Outcome(i, "respond", d, "", TRUE, 0, 0)
    /\ UNCHANGED <<now, ticks, jwks, fetched_at, records, next_oid, received,
                   fetched>>

NextGate ==
    /\ UNCHANGED <<oauthVars, keyVars, calls>>
    /\ \/ Tick(JwksTimeSteps) /\ UNCHANGED <<gateVars, storeVars>>
       \/ RequestArrive
       \/ \E i \in DOMAIN rq : Dispatch(i)
       \/ \E i \in DOMAIN rq : Respond(i)

SpecGate == Init /\ [][NextGate]_vars

(* ---- direct calls of InMemoryPrincipalStore.get_or_create ---- *)

GetOrCreateCall ==
    /\ Len(calls) < MaxCalls
    /\ \E iss \in Idents, sub \in Idents :
          LET p == get_or_create(records, next_oid, iss, sub, now)
          IN  /\ records' = p.store
              /\ next_oid' = p.oid
              /\ calls' = Append(calls, [iss |-> iss, sub |-> sub,
                                         ret |-> p.ret, at |-> now])
    /\ UNCHANGED <<now, ticks>>

NextPrincipal ==
    /\ UNCHANGED <<oauthVars, gateVars, keyVars>>
    /\ \/ Tick(JwksTimeSteps) /\ UNCHANGED <<storeVars, calls>>
       \/ GetOrCreateCall

SpecPrincipal == Init /\ [][NextPrincipal]_vars

(* ---- direct calls of SupabaseJwksClient.get_key ---- *)

(* Key identifiers callers ask for. *)
KidsAsked == {"k1", "k2"}

(* The environment answers the key-set GET of a get_key call only when it
   is made: with a body, or with the exception of raise_for_status or of
   response.json(). *)
GetAnswers(j, f, t, ttl_seconds) ==
    IF ServesCache(j, f, t, ttl_seconds)
    THEN {FetchNotCalled}
    ELSE FetchOutcomes \cup [exc : HttpFailures, body : {None}]

(* A caller (a request whose dispatch has not run yet) is about to call
   get_key(kid). *)
GetKeyArrive ==
    /\ asked < MaxLookups
    /\ asked' = asked + 1
    /\ \E kid \in KidsAsked :
          lk' = [i \in DOMAIN lk \cup {asked + 1} |->
                    IF i = asked + 1 THEN [kid |-> kid, saw |-> FALSE]
                    ELSE lk[i]]
    /\ UNCHANGED <<now, ticks, jwks, fetched_at, fetched, klast>>

(* The body of get_key(kid) runs for call i; it has no await, so it runs
   from its first line to its return or raise without another call in
   between.  saw marks the calls still waiting while this one fetches a key
   set; overlap tells that this call fetched after another had fetched
   while it was waiting. *)
GetKeyCall(i) ==
    \E ans \in GetAnswers(jwks, fetched_at, now, DEFAULT_JWKS_TTL_SECONDS) :
    LET k == get_key(jwks, fetched_at, now, DEFAULT_JWKS_TTL_SECONDS, ans,
                     lk[i].kid)
        got == ans.exc = "none"
    IN  /\ jwks' = k.g.jwks
        /\ fetched_at' = k.g.fetched_at
        /\ fetched' = IF got THEN Some([body |-> Val(ans.body), at |-> now])
                      ELSE fetched
        /\ lk' = [j \in DOMAIN lk \ {i} |->
                    IF got THEN [lk[j] EXCEPT !.saw = TRUE] ELSE lk[j]]
        /\ klast' = [op |-> "get_key", kid |-> lk[i].kid, exc |-> k.exc,
                     msg |-> k.msg, key |-> k.key, fetches |-> k.g.fetches,
                     overlap |-> lk[i].saw /\ k.g.fetches = 1]
        /\ UNCHANGED <<now, ticks, asked>>

NextKeys ==
    /\ UNCHANGED <<oauthVars, storeVars, received, rq, glast, calls>>
    /\ \/ Tick(JwksTimeSteps) /\ UNCHANGED <<jwks, fetched_at, fetched, keyVars>>
       \/ GetKeyArrive
       \/ \E i \in DOMAIN lk : GetKeyCall(i)

SpecKeys == Init /\ [][NextKeys]_vars

NextOAuth ==
    /\ UNCHANGED <<gateVars, storeVars, keyVars, calls>>
    /\ \/ Tick(StateTimeSteps) /\ UNCHANGED oauthVars
       \/ StartOAuth
       \/ CallbackArrive
       \/ \E i \in DOMAIN cb : CallbackRun(i)

SpecOAuth == Init /\ [][NextOAuth]_vars

(* ======================= properties ======================= *)

(* The handler body of request i runs in this step. *)
Ran(i) == i \in DOMAIN cb /\ i \notin DOMAIN cb'

(* Request i's handler calls consume(s) in this step. *)
ConsumeCalled(i, s) ==
    Ran(i) /\ ~Falsy(cb[i].code) /\ cb[i].state = Some(s)

(* C1: single consumption.  For every state value s returned by create: the
   first consume(s), when made strictly before s expires, succeeds and
   returns s's record (now marked consumed); every consume(s) made after a
   successful one fails on the already-consumed return; and the number of
   successful consume(s) calls never exceeds 1. *)
C1_SingleConsumption ==
    /\ [](\A s \in DOMAIN hist : hist[s].oks <= 1)
    /\ [][\A i \in DOMAIN cb : \A s \in DOMAIN states :
            ConsumeCalled(i, s) =>
              /\ (hist[s].calls = 0 /\ now < states[s].expires_at) =>
                    /\ last'.kind = "Ok"
                    /\ last'.ret = Some(states'[s])
                    /\ states'[s] = [states[s] EXCEPT !.consumed_at = Some(now)]
                    /\ states'[s].state = s
              /\ hist[s].oks >= 1 =>
                    /\ last'.kind = "AlreadyConsumed"
                    /\ last'.ret = None]_vars

(* C1 witness: a state was consumed once and a later consume of it failed as
   already consumed. *)
C1_Witness ==
    /\ last.op = "callback"
    /\ last.kind = "AlreadyConsumed"
    /\ hist[Val(last.state)].oks = 1
    /\ hist[Val(last.state)].calls >= 2

(* C2: no double-spend.  When two callbacks presenting the same unconsumed,
   unexpired state are in flight together, the one whose handler runs first
   gets the record and writes consumed_at; the one that was in flight while
   that happened gets a failure and leaves the record as the winner wrote
   it. *)
C2_NoDoubleSpend ==
    [][\A i \in DOMAIN cb : \A s \in DOMAIN states :
          ConsumeCalled(i, s) =>
            /\ cb[i].raced =>
                  /\ last'.kind # "Ok"
                  /\ last'.ret = None
                  /\ states' = states
                  /\ states[s].consumed_at # None
            /\ ( /\ \E j \in DOMAIN cb \ {i} :
                        cb[j].state = cb[i].state /\ ~Falsy(cb[j].code)
                 /\ states[s].consumed_at = None
                 /\ now < states[s].expires_at ) =>
                  /\ last'.kind = "Ok"
                  /\ last'.ret # None
                  /\ states'[s].consumed_at = Some(now)
                  /\ \A j \in DOMAIN cb' :
                        cb[j].state = cb[i].state => cb'[j].raced]_vars

(* C2 witness: the loser of a race has run and was refused, the state
   having been consumed exactly once. *)
C2_Witness ==
    /\ last.op = "callback"
    /\ last.raced
    /\ last.kind = "AlreadyConsumed"
    /\ hist[Val(last.state)].oks = 1

(* C3: expiry.  Every record expires ttl seconds after its creation; a
   consume at now >= expires_at fails (on the expired return when the state
   was never consumed) and changes nothing; a consume of an unconsumed state
   at now < expires_at succeeds. *)
C3_Expiry ==
    /\ [](\A s \in DOMAIN states :
             states[s].expires_at =
                states[s].created_at + DEFAULT_STATE_TTL_SECONDS)
    /\ [][\A i \in DOMAIN cb : \A s \in DOMAIN states :
            ConsumeCalled(i, s) =>
              /\ now >= states[s].expires_at =>
                    /\ last'.ret = None
                    /\ last'.kind \in {"Expired", "AlreadyConsumed"}
                    /\ states[s].consumed_at = None => last'.kind = "Expired"
                    /\ states' = states
              /\ (now < states[s].expires_at /\ states[s].consumed_at = None) =>
                    /\ last'.kind = "Ok"
                    /\ last'.ret # None]_vars

(* C3 witness: a never-consumed state was refused as expired at exactly its
   expiry time. *)
C3_Witness ==
    /\ last.op = "callback"
    /\ last.kind = "Expired"
    /\ states[Val(last.state)].consumed_at = None
    /\ now = states[Val(last.state)].expires_at

(* C10, as the specification states it: a callback that ends in an error at any step leaves the
   state store and the token store as they were before it. *)
C10_NoPartialState ==
    [][\A i \in DOMAIN cb :
          (Ran(i) /\ last'.step \in {"consume", "exchange", "probe"}) =>
             /\ states' = states
             /\ last_token' = last_token]_vars

(* C10 amended: a callback that fails at state consumption leaves both
   stores as they were; one that fails at the code exchange leaves the token
   store as it was and the presented state consumed; one that fails at the
   probe leaves the presented state consumed and the TokenRecord of its
   exchange stored. *)
C10_FailureEffects ==
    [][\A i \in DOMAIN cb :
          Ran(i) =>
            LET s == Val(cb[i].state)
                consumed == [states EXCEPT ![s].consumed_at = Some(now)]
            IN  /\ last'.step \in {"params", "consume"} =>
                      /\ states' = states
                      /\ last_token' = last_token
                /\ last'.step = "exchange" =>
                      /\ states' = consumed
                      /\ states[s].consumed_at = None
                      /\ last_token' = last_token
                /\ last'.step = "probe" =>
                      /\ states' = consumed
                      /\ states[s].consumed_at = None
                      /\ last_token' # None
                      /\ Val(last_token').created_at = now]_vars

(* C10 witness: a callback failed at the exchange and the state it
   presented is left consumed. *)
C10_Witness ==
    /\ last.op = "callback"
    /\ last.step = "exchange"
    /\ last.status # 200
    /\ states[Val(last.state)].consumed_at = Some(now)

(* dispatch runs for request i in this step. *)
Dispatched(i) ==
    /\ i \in DOMAIN rq
    /\ rq[i].pc = "arrived"
    /\ (i \notin DOMAIN rq' \/ rq'[i].pc = "downstream")

(* The path of request i starts with a configured public prefix. *)
OnPublicPath(i) == \E prefix \in PublicPaths : startswith(rq[i].path, prefix)

(* C4, as the specification states it: once a key set was fetched at fetched_at, whatever its
   content, a lookup at now with now - fetched_at < ttl performs no fetch,
   and a lookup with now - fetched_at >= ttl, or with nothing cached,
   performs exactly one fetch. *)
C4_CacheFreshness ==
    [][\A i \in DOMAIN rq :
          (Dispatched(i) /\ glast'.lookups = 1) =>
             /\ ( /\ fetched_at # None
                  /\ now - Val(fetched_at) < DEFAULT_JWKS_TTL_SECONDS ) =>
                    glast'.fetches = 0
             /\ ( \/ fetched_at = None
                  \/ now - Val(fetched_at) >= DEFAULT_JWKS_TTL_SECONDS ) =>
                    glast'.fetches = 1]_vars

(* C5, as the specification states it: get_or_create(iss, sub) returns a principal whose iss and
   sub are the arguments, and two calls with different (iss, sub) pairs
   never return the same principal record. *)
C5_KeyUniqueness ==
    /\ \A n \in DOMAIN calls :
          calls[n].ret.iss = calls[n].iss /\ calls[n].ret.sub = calls[n].sub
    /\ \A m, n \in DOMAIN calls :
          <<calls[m].iss, calls[m].sub>> # <<calls[n].iss, calls[n].sub>> =>
             calls[m].ret.oid # calls[n].ret.oid

(* C6: identity stability.  Any two get_or_create calls with the same
   (iss, sub) pair return the same record (same object, same created_at),
   whatever calls were made in between, and no step removes or replaces a
   record of the registry. *)
C6_IdentityStability ==
    /\ [](\A m, n \in DOMAIN calls :
             (calls[m].iss = calls[n].iss /\ calls[m].sub = calls[n].sub) =>
                calls[m].ret = calls[n].ret)
    /\ [][\A k \in DOMAIN records :
             k \in DOMAIN records' /\ records'[k] = records[k]]_vars

(* C6 witness: a pair was given twice, at different times and with a call
   for another pair in between, and both calls returned the record created
   at the first of them. *)
C6_Witness ==
    /\ Len(calls) = 3
    /\ calls[1].iss = calls[3].iss /\ calls[1].sub = calls[3].sub
    /\ <<calls[2].iss, calls[2].sub>> # <<calls[1].iss, calls[1].sub>>
    /\ calls[1].ret.oid # calls[2].ret.oid
    /\ calls[1].at < calls[3].at
    /\ calls[3].ret = calls[1].ret
    /\ calls[3].ret.created_at = calls[1].at

(* C7: exactly one creation.  Every PrincipalRecord ever constructed is the
   one stored under its key (as many records constructed as keys stored,
   all distinct objects), and every request that was admitted holds the
   record stored for its (iss, sub), also when another request for the same
   new pair was in flight at the same time. *)
C7_OneCreation ==
    /\ next_oid = Cardinality(DOMAIN records)
    /\ \A k1, k2 \in DOMAIN records :
          k1 # k2 => records[k1].oid # records[k2].oid
    /\ \A i \in DOMAIN rq :
          (rq[i].pc = "downstream" /\ rq[i].payload # None) =>
             LET k == principal_key(GetOr(Val(rq[i].payload).iss, <<>>),
                                    GetOr(Val(rq[i].payload).sub, <<>>))
             IN  /\ k \in DOMAIN records
                 /\ rq[i].principal = Some(records[k])
    /\ \A i, j \in DOMAIN rq :
          (rq[i].payload # None /\ rq[i].payload = rq[j].payload) =>
             rq[i].principal = rq[j].principal

(* C7 witness: two requests for the same new pair were in flight together,
   one created the principal while the other waited, and both now hold the
   same record. *)
C7_Witness ==
    \E i, j \in DOMAIN rq :
       /\ i # j
       /\ rq[i].pc = "downstream" /\ rq[j].pc = "downstream"
       /\ rq[j].raced
       /\ rq[i].principal # None
       /\ rq[i].principal = rq[j].principal

(* C8: request admission.  On a non-public path the request reaches the
   downstream handler only if its header starts with "Bearer ", its token
   verifies against the key set the client now holds (parses, names a kid
   of that set, RS256, signed by that key, not expired, configured audience
   and issuer) and iss and sub are non-empty; it then carries the principal
   of its (iss, sub).  Otherwise the response is a 401 with an error body,
   downstream is not called and the registry is unchanged. *)
C8_Admission ==
    [][\A i \in DOMAIN rq :
          (Dispatched(i) /\ ~OnPublicPath(i)) =>
             IF i \in DOMAIN rq'
             THEN /\ HasBearer(rq[i].auth)
                  /\ LET t == Val(rq[i].auth.token) IN
                     /\ t.wellformed
                     /\ t.kid # None
                     /\ t.alg = "RS256"
                     /\ ~t.expired
                     /\ t.aud = SUPABASE_JWT_AUDIENCE
                     /\ t.iss = Some(SUPABASE_ISSUER)
                     /\ t.sub # None /\ Val(t.sub) # <<>>
                     /\ jwks' # None
                     /\ Val(jwks').keys # None
                     /\ \E k \in Val(Val(jwks').keys) :
                           k.kid = Val(t.kid) /\ k.material = t.signer
                     /\ rq'[i].payload = Some([iss |-> t.iss, sub |-> t.sub])
                     /\ rq'[i].principal # None
                     /\ Val(rq'[i].principal).iss = Val(t.iss)
                     /\ Val(rq'[i].principal).sub = Val(t.sub)
                  /\ glast'.next
                  /\ glast'.status # 401
             ELSE /\ glast'.status = 401
                  /\ glast'.error # ""
                  /\ ~glast'.next
                  /\ records' = records
                  /\ next_oid' = next_oid]_vars

(* C8 witness: a bearer token that verified but carries no sub was answered
   401. *)
C8_Witness ==
    /\ glast.op = "dispatch"
    /\ ~glast.public
    /\ glast.bearer
    /\ glast.status = 401
    /\ glast.error = "Token missing iss/sub."
    /\ glast.lookups = 1

(* C9: public-path bypass.  A request whose path starts with a public
   prefix is passed downstream whatever its header, with no key lookup and
   no fetch, leaving the key-set cache and the registry unchanged; the
   response of a request passed downstream is the downstream one. *)
C9_PublicBypass ==
    [][\A i \in DOMAIN rq :
          /\ (Dispatched(i) /\ OnPublicPath(i)) =>
                /\ i \in DOMAIN rq'
                /\ rq'[i] = [rq[i] EXCEPT !.pc = "downstream"]
                /\ glast'.next
                /\ glast'.lookups = 0
                /\ glast'.fetches = 0
                /\ UNCHANGED <<jwks, fetched_at, records, next_oid>>
          /\ (rq[i].pc = "downstream" /\ i \notin DOMAIN rq') =>
                /\ glast'.op = "respond"
                /\ glast'.status \in DownstreamStatuses
                /\ UNCHANGED <<jwks, fetched_at, records, next_oid>>]_vars

(* C9 witness: a request on a public path without a bearer header was
   passed downstream and answered by it. *)
C9_Witness ==
    /\ glast.op = "respond"
    /\ glast.public
    /\ ~glast.bearer
    /\ glast.status = 200

(* C11: a callback whose exchange_token raises (the status check or the
   parsing of the body) leaves the token store holding exactly what it held
   before the callback: the previous record, or nothing. *)
C11_FailedExchangeKeepsToken ==
    [][\A i \in DOMAIN cb :
          (Ran(i) /\ last'.step = "exchange") =>
             /\ last'.exc \in HttpFailures
             /\ last_token' = last_token]_vars

(* C11 witness: the exchange of the most recent callback failed while the
   token store held the record of an earlier callback, and still holds it. *)
C11_Witness ==
    /\ last.op = "callback"
    /\ last.step = "exchange"
    /\ Len(exchanges) = 1
    /\ last_token # None
    /\ Val(last_token).raw = exchanges[1].body

(* C12: last write wins.  The token store holds at most one record; it is
   empty exactly when no exchange has returned a body yet, and otherwise it
   holds the TokenRecord built from the body of the most recent exchange that
   returned one, at the time of that callback. *)
C12_LastWriteWins ==
    /\ Len(last_token) <= 1
    /\ (last_token = None) <=> (exchanges = <<>>)
    /\ exchanges # <<>> =>
          LET e == exchanges[Len(exchanges)]
              record == Val(last_token)
          IN  /\ record.raw = e.body
              /\ record.created_at = e.at
              /\ record.access_token = GetOr(e.body.access_token, "")
              /\ record.workspace_id = e.body.workspace_id
              /\ record.workspace_name = e.body.workspace_name
              /\ record.scope = e.body.scope

(* C12 witness: two exchanges returned different bodies, and the store holds
   the record of the second. *)
C12_Witness ==
    /\ Len(exchanges) = 2
    /\ exchanges[1].body # exchanges[2].body
    /\ last_token # None
    /\ Val(last_token).raw = exchanges[2].body

(* The positions of a call in the trace of a handler body. *)
Positions(trace, call) == {k \in DOMAIN trace : trace[k] = call}

(* C13: step order and no retries.  Within one callback the token endpoint
   is called only after the presented state was consumed by that callback,
   the probe only after an exchange that returned a body and after the save
   of its TokenRecord; each is called at most once; a callback with a
   missing code or state, or whose consume failed, makes no outbound call. *)
C13_StepOrder ==
    last.op = "callback" =>
      /\ Cardinality(Positions(last.trace, "exchange")) <= 1
      /\ Cardinality(Positions(last.trace, "probe")) <= 1
      /\ \A k \in Positions(last.trace, "exchange") :
            /\ last.kind = "Ok"
            /\ last.ret # None
            /\ \E j \in Positions(last.trace, "consume") : j < k
      /\ \A k \in Positions(last.trace, "probe") :
            /\ last.step \in {"probe", "done"}
            /\ \E e \in Positions(last.trace, "exchange") :
               \E j \in Positions(last.trace, "save") : e < j /\ j < k
      /\ last.step = "params" => last.trace = <<>>
      /\ (last.step = "consume" \/ last.kind # "Ok") =>
            /\ Positions(last.trace, "exchange") = {}
            /\ Positions(last.trace, "probe") = {}

(* C13 witness: a callback went through all its steps: one consume, one
   exchange, the save, one probe. *)
C13_Witness ==
    /\ last.op = "callback"
    /\ last.step = "done"
    /\ last.status = 200
    /\ last.trace = <<"consume", "exchange", "save", "probe">>

(* C14: sanitized token view.  The token object of every 200 callback
   response has exactly the fields workspace_id, workspace_name, created_at
   and scope, with created_at the ISO-8601 text of the record's time and the
   other three as in the record; it has no access_token and no raw field;
   and the record in the token store is the complete TokenRecord, as
   store_token built it. *)
C14_SanitizedView ==
    /\ [](last.view # None =>
            /\ last.status = 200
            /\ DOMAIN Val(last.view) =
                  {"workspace_id", "workspace_name", "created_at", "scope"}
            /\ Len(Val(last.view).created_at) = 25
            /\ Val(last.view).created_at[11] = "T")
    /\ [][\A i \in DOMAIN cb :
            (Ran(i) /\ last'.status = 200) =>
               /\ last'.view # None
               /\ last_token' # None
               /\ LET view == Val(last'.view)
                      record == Val(last_token')
                  IN  /\ "access_token" \notin DOMAIN view
                      /\ "raw" \notin DOMAIN view
                      /\ view.workspace_id = record.workspace_id
                      /\ view.workspace_name = record.workspace_name
                      /\ view.scope = record.scope
                      /\ view.created_at = isoformat(record.created_at)
                      /\ record.created_at = now
                      /\ DOMAIN record =
                            {"access_token", "workspace_id", "workspace_name",
                             "created_at", "scope", "raw"}
                      /\ record = TokenRecord(record.raw, now)]_vars

(* C14 witness: a 200 response carries the view of a record whose
   access_token is "tokA", created ten minutes after the epoch. *)
C14_Witness ==
    /\ last.op = "callback"
    /\ last.status = 200
    /\ last.view # None
    /\ last_token # None
    /\ Val(last_token).access_token = "tokA"
    /\ Val(last_token).raw.access_token = Some("tokA")
    /\ Val(last.view).created_at =
          <<"1", "9", "7", "0", "-", "0", "1", "-", "0", "1", "T",
            "0", "0", ":", "1", "0", ":", "0", "0", "+", "0", "0", ":", "0", "0">>

(* A consume call is made with the state value v (known to the store or
   not) in this step. *)
ConsumeCalledWith(i, v) ==
    /\ Ran(i)
    /\ ~Falsy(cb[i].code)
    /\ cb[i].state = Some(v)

(* C15: a failed consume changes nothing.  A consume that returns None
   (unknown value, already consumed, expired) leaves every record of the
   state store as it was; consumed_at of a record goes from None to a time
   only in a successful consume of that record, where it becomes the time of
   that call, and a consumed_at that is set never changes. *)
C15_FailedConsumeFrame ==
    /\ [][\A i \in DOMAIN cb : \A v \in StateValues \cup {ForgedState} :
            (ConsumeCalledWith(i, v) /\ last'.ret = None) =>
               /\ last'.kind \in {"NotFound", "AlreadyConsumed", "Expired"}
               /\ states' = states]_vars
    /\ [][\A s \in DOMAIN states :
            /\ s \in DOMAIN states'
            /\ states[s].consumed_at # None =>
                  states'[s].consumed_at = states[s].consumed_at
            /\ states'[s].consumed_at # states[s].consumed_at =>
                  /\ \E i \in DOMAIN cb : ConsumeCalledWith(i, s)
                  /\ last'.kind = "Ok"
                  /\ last'.ret # None
                  /\ states'[s].consumed_at = Some(now)]_vars

(* C15 witness: a state consumed at an earlier time was presented again, the
   consume failed, and the record still carries the earlier time. *)
C15_Witness ==
    /\ last.op = "callback"
    /\ last.kind = "AlreadyConsumed"
    /\ last.state # None
    /\ Val(last.state) \in DOMAIN states
    /\ states[Val(last.state)].consumed_at # None
    /\ Val(states[Val(last.state)].consumed_at) < now

(* C20: state uniqueness on create.  The state store changes only in a
   callback run or in a create, and a create adds one record under a state
   value that was not a key of the store: unconsumed, created now, expiring
   ttl seconds later; every record the store already held (consumed or
   expired ones included) is left as it was. *)
C20_CreateIsFresh ==
    [][(states' # states /\ \A i \in DOMAIN cb : ~Ran(i)) =>
          \E state \in StateValues :
             /\ state \notin DOMAIN states
             /\ DOMAIN states' = DOMAIN states \cup {state}
             /\ \A s \in DOMAIN states : states'[s] = states[s]
             /\ states'[state].state = state
             /\ states'[state].consumed_at = None
             /\ states'[state].created_at = now
             /\ states'[state].expires_at = now + DEFAULT_STATE_TTL_SECONDS]_vars

(* C20 witness: a create was made after another state had been consumed and
   had expired; that record is still consumed and expired. *)
C20_Witness ==
    \E s \in DOMAIN states : \E u \in DOMAIN states \ {s} :
       /\ states[s].consumed_at # None
       /\ states[u].created_at >= states[s].expires_at
       /\ states[u].consumed_at = None
       /\ now < states[u].expires_at

(* C19: the callback endpoint answers 400 exactly when the code or state
   parameter is missing or empty or the consume of the state failed; a
   callback that failed at the code exchange or at the probe is not answered
   400. *)
C19_BadRequestOnly ==
    last.op = "callback" =>
      /\ (last.status = 400) <=> (last.step \in {"params", "consume"})
      /\ last.step \in {"exchange", "probe"} => last.status # 400

(* The body of the direct get_key call i runs in this step. *)
Called(i) == i \in DOMAIN lk /\ i \notin DOMAIN lk'

(* The kids of the keys of a cached key set (none for the empty body). *)
Kids(j) == IF JwksTruthy(j) THEN {k.kid : k \in GetOr(Val(j).keys, {})} ELSE {}

(* The cache is stale (or empty) by its fetch time. *)
Stale == fetched_at = None \/ now - Val(fetched_at) >= DEFAULT_JWKS_TTL_SECONDS

(* C16: atomic replacement of the key set.  The cached key set and its
   fetch time are always both unset, or the body and the time of one and the
   same fetch (the most recent one that returned a body); a lookup that
   resolves its kid finds the key in such a complete set; and the fetch time
   never moves backwards, however the lookups of the callers waiting
   together, each fetching on a stale or empty cache, follow one another. *)
C16_AtomicReplacement ==
    /\ [](IF fetched = None
          THEN jwks = None /\ fetched_at = None
          ELSE /\ jwks = Some(Val(fetched).body)
               /\ fetched_at = Some(Val(fetched).at)
               /\ Val(fetched).body \in KeySetBodies
               /\ Val(fetched).at <= now)
    /\ [][/\ fetched_at # None =>
               /\ fetched_at' # None
               /\ Val(fetched_at') >= Val(fetched_at)
          /\ \A i \in DOMAIN lk :
               (Called(i) /\ klast'.key # None) =>
                  /\ fetched' # None
                  /\ Val(klast'.key).kid = lk[i].kid
                  /\ Val(klast'.key) \in GetOr(Val(fetched').body.keys, {})
                  /\ klast'.fetches = 1 => fetched_at' = Some(now)]_vars

(* C16 witness: two callers waited together; the lookup of the first
   fetched, and the lookup of the second, on a cache that was stale again,
   fetched too and resolved its kid; the cache holds the second body with
   the second fetch time. *)
C16_Witness ==
    /\ klast.op = "get_key"
    /\ klast.overlap
    /\ klast.fetches = 1
    /\ klast.key # None
    /\ fetched # None
    /\ jwks = Some(Val(fetched).body)
    /\ fetched_at = Some(now)
    /\ now > DEFAULT_JWKS_TTL_SECONDS

(* C17: key-set fetch failure.  A lookup whose fetch fails (the status check
   or the parsing of the body raises) was made on a stale or empty cache,
   made one fetch, and fails with the exception of the fetch, no key of the
   cached set being returned; the cached key set and the fetch time keep
   their values; and the lookup that follows fetches again. *)
C17_FetchFailure ==
    [][\A i \in DOMAIN lk :
          /\ (Called(i) /\ klast'.exc \in HttpFailures) =>
                /\ klast'.fetches = 1
                /\ klast'.key = None
                /\ jwks' = jwks
                /\ fetched_at' = fetched_at
                /\ Kids(jwks) = {} \/ Stale
          /\ (Called(i) /\ klast.exc \in HttpFailures) =>
                klast'.fetches = 1]_vars

(* C17 witness: the cached set, holding the kid asked for, was stale; the
   fetch of the most recent lookup failed, and the cache still holds that
   set with its old fetch time. *)
C17_Witness ==
    /\ klast.op = "get_key"
    /\ klast.exc \in HttpFailures
    /\ klast.key = None
    /\ klast.kid \in Kids(jwks)
    /\ fetched_at # None
    /\ Stale

(* A lookup ended on one of the two ValueErrors of get_key. *)
KeyNotFound(outcome) ==
    /\ outcome.exc = "ValueError"
    /\ outcome.msg \in {"No JWKS available.", "No matching JWKS key found."}

(* C18: refresh even when the kid is missing.  A get_key(kid) made when the
   cache is stale (or empty) performs one fetch and, when the fetch returns
   a body, holds that body as the cached set with the time of the call, and
   only then fails for a kid the new set lacks; a get_key(kid) made within
   ttl seconds of the last refresh performs no fetch, and fails for a kid
   the cached set lacks. *)
C18_RefreshThenMiss ==
    [][\A i \in DOMAIN lk :
          Called(i) =>
             /\ Stale =>
                   /\ klast'.fetches = 1
                   /\ klast'.exc \notin HttpFailures =>
                         /\ fetched' # None
                         /\ jwks' = Some(Val(fetched').body)
                         /\ fetched_at' = Some(now)
                         /\ lk[i].kid \notin Kids(jwks') => KeyNotFound(klast')
             /\ ~Stale =>
                   /\ klast'.fetches = 0
                   /\ jwks' = jwks
                   /\ fetched_at' = fetched_at
                   /\ lk[i].kid \notin Kids(jwks) => KeyNotFound(klast')]_vars

====
